---------------------------- MODULE Spec2Model ----------------------------
(***************************************************************************)
(* Model of the react-native-sliders package: the single-thumb Slider     *)
(* (slider.tsx), the dual-thumb RangeSlider (range-slider.tsx) and the    *)
(* helpers of lib/utils.ts and lib/constants.ts.                          *)
(*                                                                         *)
(* JavaScript numbers are modelled as exact rationals [num, den] in       *)
(* lowest terms with den > 0, so that the linear interpolation, the       *)
(* division by step and Math.round are computed as the code computes      *)
(* them (floating-point rounding error is not modelled).                  *)
(***************************************************************************)
EXTENDS Integers, Sequences, FiniteSets, TLC

----------------------------------------------------------------------------
(* Bounds of the model *)

\* widest track (width - thumbSize) of a mounted component
MaxTrack == 4
\* largest |translationX| of one pan update sample, in pixels
MaxTranslation == 3
\* how far a RangeSlider thumb may be dragged outside the track
MaxOvershoot == 1
\* number of frames of a withTiming position animation
MaxFrames == 2
\* deferred runOnJS(updateRangeValues) calls that may be pending
MaxPending == 1
\* pan starts, pan update samples and taps the user makes on a component
MaxEvents == 3
\* largest domain bound (max) of a mounted component
MaxValue == 4
\* largest step of a mounted component
MaxStep == 3
\* grid of the inputs of the pure functions
MaxArg == 4

----------------------------------------------------------------------------
(* JavaScript number arithmetic on exact rationals *)

Abs(i) == IF i < 0 THEN -i ELSE i

RECURSIVE Gcd(_, _)
Gcd(a, b) == IF b = 0 THEN a ELSE Gcd(b, a % b)

\* the rational n/d (d # 0) in lowest terms with a positive denominator
Rat(n, d) ==
    LET g == Gcd(Abs(n), Abs(d))
        s == IF d < 0 THEN -1 ELSE 1
    IN  [num |-> (s * n) \div g, den |-> (s * d) \div g]

Num(i) == [num |-> i, den |-> 1]

RAdd(a, b) == Rat(a.num * b.den + b.num * a.den, a.den * b.den)
RSub(a, b) == Rat(a.num * b.den - b.num * a.den, a.den * b.den)
RMul(a, b) == Rat(a.num * b.num, a.den * b.den)
\* a / b, used only where the code has excluded b = 0
RDiv(a, b) == Rat(a.num * b.den, a.den * b.num)
RNeg(a) == [num |-> -a.num, den |-> a.den]

RLt(a, b) == a.num * b.den < b.num * a.den
RLe(a, b) == a.num * b.den <= b.num * a.den

\* Math.min, Math.max, Math.abs
MathMin(a, b) == IF RLt(b, a) THEN b ELSE a
MathMax(a, b) == IF RLt(a, b) THEN b ELSE a
MathAbs(a) == [num |-> Abs(a.num), den |-> a.den]

\* Math.floor in the place of Math.round
MathFloor(a) == Num(a.num \div a.den)

\* Math.round: the nearest integer, ties towards +Infinity: floor(a + 1/2)
MathRound(a) == Num((2 * a.num + a.den) \div (2 * a.den))

----------------------------------------------------------------------------
(* lib/utils.ts: the value mapper *)

\* react-native-reanimated's interpolate for two-point ranges:
\* inRange = <<l, r>>, outRange = <<lo, ro>>, clamp = TRUE for the
\* "clamp" extrapolation and FALSE for the default one ("extend").
interpolate(x, inRange, outRange, clamp) ==
    LET l == inRange[1]
        r == inRange[2]
        lo == outRange[1]
        ro == outRange[2]
    IN  IF RSub(r, l) = Num(0) THEN lo
        ELSE LET progress == RDiv(RSub(x, l), RSub(r, l))
                 val == RAdd(lo, RMul(progress, RSub(ro, lo)))
                 coef == IF RLe(lo, ro) THEN Num(1) ELSE Num(-1)
             IN  IF RLt(RMul(coef, val), RMul(coef, lo))
                     THEN (IF clamp THEN lo ELSE val)
                 ELSE IF RLt(RMul(coef, ro), RMul(coef, val))
                     THEN (IF clamp THEN ro ELSE val)
                 ELSE val

\* a clamp that applies the upper bound last
clampPositionMinLast(position, min, max) ==
    MathMin(max, MathMax(min, position))

\* clampPosition: Math.max(min, Math.min(max, position))
clampPosition(position, min, max) == MathMax(min, MathMin(max, position))

\* calculateSteppedValue without the clamp that follows the rounding
calculateSteppedValueNoClamp(value, step, min, max) ==
    IF RLt(Num(0), step) THEN RMul(MathRound(RDiv(value, step)), step)
    ELSE value

calculateSteppedValue(value, step, min, max) ==
    LET steppedValue == IF RLt(Num(0), step)
                            THEN RMul(MathRound(RDiv(value, step)), step)
                            ELSE value
    IN  MathMax(min, MathMin(max, steppedValue))

\* positionToValue with the output range of the interpolation reversed
positionToValueReversed(position, trackWidth, min, max, step) ==
    LET clampedPosition == clampPosition(position, Num(0), trackWidth)
        rawValue == interpolate(clampedPosition, <<Num(0), trackWidth>>,
                                <<max, min>>, FALSE)
    IN  calculateSteppedValue(rawValue, step, min, max)

positionToValue(position, trackWidth, min, max, step) ==
    LET clampedPosition == clampPosition(position, Num(0), trackWidth)
        rawValue == interpolate(clampedPosition, <<Num(0), trackWidth>>,
                                <<min, max>>, FALSE)
    IN  calculateSteppedValue(rawValue, step, min, max)

\* the initial position interpolated from [0, max] instead of [min, max]
initialPositionFromZero(initial, trackWidth, min, max) ==
    interpolate(initial, <<Num(0), max>>, <<Num(0), trackWidth>>, TRUE)

\* the initial position interpolated without the "clamp" extrapolation
initialPositionExtended(initial, trackWidth, min, max) ==
    interpolate(initial, <<min, max>>, <<Num(0), trackWidth>>, FALSE)

\* the initial position of a thumb: useSharedValue(interpolate(initial,
\* [min, max], [0, trackWidth], "clamp"))
initialPosition(initial, trackWidth, min, max) ==
    interpolate(initial, <<min, max>>, <<Num(0), trackWidth>>, TRUE)

----------------------------------------------------------------------------
(* lib/constants.ts and the theme resolver of lib/utils.ts *)

Slots == {"trackColor", "activeTrackColor", "thumbColor",
          "thumbBorderColor", "thumbFocusRingColor"}

THEME_COLORS ==
    [light |-> [trackColor |-> "#F5F5F5", activeTrackColor |-> "#171717",
                thumbColor |-> "#FFFFFF", thumbBorderColor |-> "#171717",
                thumbFocusRingColor |-> "#D0D0D0"],
     dark  |-> [trackColor |-> "#262626", activeTrackColor |-> "#E5E5E5",
                thumbColor |-> "#0A0A0A", thumbBorderColor |-> "#E5E5E5",
                thumbFocusRingColor |-> "#3F3F3F"]]

DEFAULT_THEME == "light"

\* the values the ?? operator falls through on
Undefined == "undefined"
Null == "null"
Nullish == {Undefined, Null}

\* the outcome of reading a property of undefined
TypeError == "TypeError"

\* the slot resolved against the default theme's table, whatever the theme
resolveSlotDefaultTheme(theme, customColors, slot) ==
    IF customColors[slot] \notin Nullish THEN customColors[slot]
    ELSE THEME_COLORS[DEFAULT_THEME][slot]

\* customColors[slot] ?? themeColors[slot], where themeColors is
\* THEME_COLORS[theme]: undefined for a theme the table does not hold, and
\* then reading themeColors[slot] throws a TypeError
resolveSlot(theme, customColors, slot) ==
    IF customColors[slot] \notin Nullish THEN customColors[slot]
    ELSE IF theme \in DOMAIN THEME_COLORS THEN THEME_COLORS[theme][slot]
    ELSE TypeError

\* the outcome of the hook: the color set, or threw when a slot threw
useThemeColors(theme, customColors) ==
    [threw |-> \E slot \in Slots :
                   resolveSlot(theme, customColors, slot) = TypeError,
     colors |-> [slot \in Slots |-> resolveSlot(theme, customColors, slot)]]

----------------------------------------------------------------------------
(* The state of a mounted component *)

VARIABLES
    component,            \* "Slider" or "RangeSlider": which one is mounted
    props,                \* the props of the current render
    position,             \* Slider: position.value
    startPosition,        \* Slider: startPosition.value
    isThumbActive,        \* Slider: the value isThumbActive is driven to
    positionAnim,         \* Slider: the withTiming animation of position
    panState,             \* Slider: lifecycle of the pan gesture
    leftPosition,         \* RangeSlider: leftPosition.value
    rightPosition,        \* RangeSlider: rightPosition.value
    startLeftPosition,    \* RangeSlider: startLeftPosition.value
    startRightPosition,   \* RangeSlider: startRightPosition.value
    isLeftThumbActive,    \* RangeSlider: the value the flag is driven to
    isRightThumbActive,   \* RangeSlider: the value the flag is driven to
    leftAnim,             \* RangeSlider: the animation of leftPosition
    rightAnim,            \* RangeSlider: the animation of rightPosition
    leftPanState,         \* RangeSlider: lifecycle of the left pan gesture
    rightPanState,        \* RangeSlider: lifecycle of the right pan gesture
    jsQueue,              \* RangeSlider: updateRangeValues calls handed to
                          \* the JS thread by runOnJS and not yet run
    notified,             \* the callback invocations made by the last step
    lastEvent,            \* the event the last step handled
    events,               \* pan starts, pan updates and taps handled so far
    repeated,             \* the last step made the callback invocations
                          \* that the step before it had made
    call,                 \* value mapper / theme resolver: the call made
    ret                   \* value mapper / theme resolver: its result

sliderVars == <<position, startPosition, isThumbActive, positionAnim,
                panState>>
rangeVars == <<leftPosition, rightPosition, startLeftPosition,
               startRightPosition, isLeftThumbActive, isRightThumbActive,
               leftAnim, rightAnim, leftPanState, rightPanState, jsQueue>>
fnVars == <<call, ret>>
vars == <<component, props, sliderVars, rangeVars, notified, lastEvent,
          events, repeated, fnVars>>

\* what the consumer sees of a step: the same arguments again
Repeats == notified' # <<>> /\ notified' = notified

\* no animation is running on a shared value
NoAnim == [active |-> FALSE, from |-> Num(0), to |-> Num(0), frame |-> 0]

\* sharedValue.value = withTiming(toValue, ...): the value stays where it is
\* and the frames that follow move it to toValue
withTiming(current, toValue) ==
    [active |-> TRUE, from |-> current, to |-> toValue, frame |-> 0]

\* the value of an animated shared value after its next frame: frame k of
\* MaxFrames, the last one landing on the target
animFrameValue(anim) ==
    IF anim.frame + 1 >= MaxFrames THEN anim.to
    ELSE RAdd(anim.from, RMul(RSub(anim.to, anim.from),
                              Rat(anim.frame + 1, MaxFrames)))

animAfterFrame(anim) ==
    IF anim.frame + 1 >= MaxFrames THEN NoAnim
    ELSE [anim EXCEPT !.frame = anim.frame + 1]

\* const trackWidth = useMemo(() => width - thumbSize, [width, thumbSize])
trackWidth == RSub(props.width, props.thumbSize)

\* event.x - thumbSize / 2, clamped to the track
tapTarget(x) ==
    clampPosition(RSub(x, RDiv(props.thumbSize, Num(2))), Num(0), trackWidth)

----------------------------------------------------------------------------
(* Slider (slider.tsx) *)

\* updateValue calling onValueChange without testing that it is there
updateValueUnguarded(newPosition) ==
    <<positionToValue(newPosition, trackWidth, props.min, props.max,
                      props.step)>>

\* updateValue: the onValueChange calls it makes for newPosition
updateValue(newPosition) ==
    LET finalValue == positionToValue(newPosition, trackWidth, props.min,
                                      props.max, props.step)
    IN  IF props.hasCallback THEN <<finalValue>> ELSE <<>>

\* a sample's translation added to the position the thumb is at
panClampedPositionFromCurrent(translationX) ==
    clampPosition(RAdd(position, translationX), Num(0), trackWidth)

\* panGesture.onUpdate: the position stored for a sample
panClampedPosition(translationX) ==
    clampPosition(RAdd(startPosition, translationX), Num(0), trackWidth)

SliderPanStart ==
    /\ component = "Slider"
    /\ events < MaxEvents
    /\ events' = events + 1
    /\ panState = "idle"
    /\ startPosition' = position
    /\ isThumbActive' = 1
    /\ panState' = "active"
    /\ notified' = <<>>
    /\ lastEvent' = "panStart"
    /\ repeated' = Repeats
    /\ UNCHANGED <<component, props, position, positionAnim, rangeVars,
                   fnVars>>

\* the pan update that notifies only when the value has changed
SliderPanUpdateDedup(translationX) ==
    /\ component = "Slider"
    /\ events < MaxEvents
    /\ events' = events + 1
    /\ panState = "active"
    /\ position' = panClampedPosition(translationX)
    /\ positionAnim' = NoAnim
    /\ notified' = IF updateValue(panClampedPosition(translationX))
                          = updateValue(position)
                       THEN <<>>
                       ELSE updateValue(panClampedPosition(translationX))
    /\ lastEvent' = "panUpdate"
    /\ repeated' = Repeats
    /\ UNCHANGED <<component, props, startPosition, isThumbActive, panState,
                   rangeVars, fnVars>>

SliderPanUpdate(translationX) ==
    /\ component = "Slider"
    /\ events < MaxEvents
    /\ events' = events + 1
    /\ panState = "active"
    /\ position' = panClampedPosition(translationX)
    /\ positionAnim' = NoAnim
    /\ notified' = updateValue(panClampedPosition(translationX))
    /\ lastEvent' = "panUpdate"
    /\ repeated' = Repeats
    /\ UNCHANGED <<component, props, startPosition, isThumbActive, panState,
                   rangeVars, fnVars>>

\* a finalize that snaps the thumb to the position of its quantized value
SliderPanFinalizeSnaps ==
    /\ component = "Slider"
    /\ panState = "active"
    /\ isThumbActive' = 0
    /\ panState' = "idle"
    /\ position' = initialPosition(positionToValue(position, trackWidth,
                                       props.min, props.max, props.step),
                                   trackWidth, props.min, props.max)
    /\ notified' = <<>>
    /\ lastEvent' = "panFinalize"
    /\ repeated' = Repeats
    /\ UNCHANGED <<component, props, startPosition, positionAnim, rangeVars,
                   events, fnVars>>

\* panGesture.onFinalize
SliderPanFinalize ==
    /\ component = "Slider"
    /\ panState = "active"
    /\ isThumbActive' = 0
    /\ panState' = "idle"
    /\ notified' = <<>>
    /\ lastEvent' = "panFinalize"
    /\ repeated' = Repeats
    /\ UNCHANGED <<component, props, position, startPosition, positionAnim,
                   rangeVars, events, fnVars>>

\* the tap handler of a gesture that is always enabled
SliderTapAlwaysEnabled(x) ==
    /\ component = "Slider"
    /\ events < MaxEvents
    /\ events' = events + 1
    /\ lastEvent' = "tap"
    /\ positionAnim' = withTiming(position, tapTarget(x))
    /\ notified' = updateValue(tapTarget(x))
    /\ repeated' = Repeats
    /\ UNCHANGED <<component, props, position, startPosition, isThumbActive,
                   panState, rangeVars, fnVars>>

\* a tap that notifies the value of the position the thumb is at
SliderTapNotifiesPosition(x) ==
    /\ component = "Slider"
    /\ events < MaxEvents
    /\ events' = events + 1
    /\ lastEvent' = "tap"
    /\ IF props.tapToMove
           THEN /\ positionAnim' = withTiming(position, tapTarget(x))
                /\ notified' = updateValue(position)
           ELSE /\ positionAnim' = positionAnim
                /\ notified' = <<>>
    /\ repeated' = Repeats
    /\ UNCHANGED <<component, props, position, startPosition, isThumbActive,
                   panState, rangeVars, fnVars>>

\* Gesture.Tap().enabled(tapToMove): a disabled gesture never calls onStart
SliderTap(x) ==
    /\ component = "Slider"
    /\ events < MaxEvents
    /\ events' = events + 1
    /\ lastEvent' = "tap"
    /\ IF props.tapToMove
           THEN /\ positionAnim' = withTiming(position, tapTarget(x))
                /\ notified' = updateValue(tapTarget(x))
           ELSE /\ positionAnim' = positionAnim
                /\ notified' = <<>>
    /\ repeated' = Repeats
    /\ UNCHANGED <<component, props, position, startPosition, isThumbActive,
                   panState, rangeVars, fnVars>>

\* one frame of the animation started by the tap
SliderAnimFrame ==
    /\ component = "Slider"
    /\ positionAnim.active
    /\ position' = animFrameValue(positionAnim)
    /\ positionAnim' = animAfterFrame(positionAnim)
    /\ notified' = <<>>
    /\ lastEvent' = "frame"
    /\ repeated' = Repeats
    /\ UNCHANGED <<component, props, startPosition, isThumbActive, panState,
                   rangeVars, events, fnVars>>

----------------------------------------------------------------------------
(* RangeSlider (range-slider.tsx) *)

\* updateRangeValues: the onRangeChange calls it makes when it reads the
\* positions left and right
updateRangeValues(left, right) ==
    LET leftValue == interpolate(left, <<Num(0), trackWidth>>,
                                 <<props.min, props.max>>, TRUE)
        rightValue == interpolate(right, <<Num(0), trackWidth>>,
                                  <<props.min, props.max>>, TRUE)
        finalLeftValue == calculateSteppedValue(leftValue, props.step,
                                                props.min, props.max)
        finalRightValue == calculateSteppedValue(rightValue, props.step,
                                                 props.min, props.max)
    IN  IF props.hasCallback THEN << <<finalLeftValue, finalRightValue>> >>
        ELSE <<>>

\* the left pan update without the clamp against the right thumb
leftPanPositionUnclamped(translationX) ==
    RAdd(startLeftPosition, translationX)

\* leftPanGesture.onUpdate: the position stored for a sample
leftPanPosition(translationX) ==
    MathMin(RAdd(startLeftPosition, translationX),
            RSub(rightPosition, props.thumbSize))

\* rightPanGesture.onUpdate: the position stored for a sample
rightPanPosition(translationX) ==
    MathMax(RAdd(startRightPosition, translationX),
            RAdd(leftPosition, props.thumbSize))

\* a selection that gives the left thumb a tap as far from one thumb as from
\* the other
tapMovesLeftOnTie(x) ==
    LET clampedPosition == tapTarget(x)
        distToLeft == MathAbs(RSub(clampedPosition, leftPosition))
        distToRight == MathAbs(RSub(clampedPosition, rightPosition))
    IN  RLe(distToLeft, distToRight)

\* tapGesture.onStart: whether the tap moves the left thumb
tapMovesLeft(x) ==
    LET clampedPosition == tapTarget(x)
        distToLeft == MathAbs(RSub(clampedPosition, leftPosition))
        distToRight == MathAbs(RSub(clampedPosition, rightPosition))
    IN  RLt(distToLeft, distToRight)

LeftPanStart ==
    /\ component = "RangeSlider"
    /\ events < MaxEvents
    /\ events' = events + 1
    /\ leftPanState = "idle"
    /\ startLeftPosition' = leftPosition
    /\ isLeftThumbActive' = 1
    /\ leftPanState' = "active"
    /\ notified' = <<>>
    /\ lastEvent' = "leftPanStart"
    /\ repeated' = Repeats
    /\ UNCHANGED <<component, props, sliderVars, leftPosition, rightPosition,
                   startRightPosition, isRightThumbActive, leftAnim,
                   rightAnim, rightPanState, jsQueue, fnVars>>

\* the handler stores the position and hands updateRangeValues to the JS
\* thread with runOnJS: the positions are read when that call runs
LeftPanUpdate(translationX) ==
    /\ component = "RangeSlider"
    /\ events < MaxEvents
    /\ events' = events + 1
    /\ leftPanState = "active"
    /\ jsQueue < MaxPending
    /\ RLe(Num(-MaxOvershoot), RAdd(startLeftPosition, translationX))
    /\ leftPosition' = leftPanPosition(translationX)
    /\ leftAnim' = NoAnim
    /\ jsQueue' = jsQueue + 1
    /\ notified' = <<>>
    /\ lastEvent' = "leftPanUpdate"
    /\ repeated' = Repeats
    /\ UNCHANGED <<component, props, sliderVars, rightPosition,
                   startLeftPosition, startRightPosition, isLeftThumbActive,
                   isRightThumbActive, rightAnim, leftPanState,
                   rightPanState, fnVars>>

\* a finalize that leaves the flag of the left thumb as it is
LeftPanFinalizeKeepsFlag ==
    /\ component = "RangeSlider"
    /\ leftPanState = "active"
    /\ isLeftThumbActive' = isLeftThumbActive
    /\ leftPanState' = "idle"
    /\ notified' = <<>>
    /\ lastEvent' = "leftPanFinalize"
    /\ repeated' = Repeats
    /\ UNCHANGED <<component, props, sliderVars, leftPosition, rightPosition,
                   startLeftPosition, startRightPosition, isRightThumbActive,
                   leftAnim, rightAnim, rightPanState, jsQueue, events,
                   fnVars>>

\* leftPanGesture.onFinalize
LeftPanFinalize ==
    /\ component = "RangeSlider"
    /\ leftPanState = "active"
    /\ isLeftThumbActive' = 0
    /\ leftPanState' = "idle"
    /\ notified' = <<>>
    /\ lastEvent' = "leftPanFinalize"
    /\ repeated' = Repeats
    /\ UNCHANGED <<component, props, sliderVars, leftPosition, rightPosition,
                   startLeftPosition, startRightPosition, isRightThumbActive,
                   leftAnim, rightAnim, rightPanState, jsQueue, events, fnVars>>

RightPanStart ==
    /\ component = "RangeSlider"
    /\ events < MaxEvents
    /\ events' = events + 1
    /\ rightPanState = "idle"
    /\ startRightPosition' = rightPosition
    /\ isRightThumbActive' = 1
    /\ rightPanState' = "active"
    /\ notified' = <<>>
    /\ lastEvent' = "rightPanStart"
    /\ repeated' = Repeats
    /\ UNCHANGED <<component, props, sliderVars, leftPosition, rightPosition,
                   startLeftPosition, isLeftThumbActive, leftAnim, rightAnim,
                   leftPanState, jsQueue, fnVars>>

\* the handler stores the position and calls updateRangeValues itself
RightPanUpdate(translationX) ==
    /\ component = "RangeSlider"
    /\ events < MaxEvents
    /\ events' = events + 1
    /\ rightPanState = "active"
    /\ RLe(RAdd(startRightPosition, translationX),
           RAdd(trackWidth, Num(MaxOvershoot)))
    /\ rightPosition' = rightPanPosition(translationX)
    /\ rightAnim' = NoAnim
    /\ notified' = updateRangeValues(leftPosition,
                                     rightPanPosition(translationX))
    /\ lastEvent' = "rightPanUpdate"
    /\ repeated' = Repeats
    /\ UNCHANGED <<component, props, sliderVars, leftPosition,
                   startLeftPosition, startRightPosition, isLeftThumbActive,
                   isRightThumbActive, leftAnim, leftPanState, rightPanState,
                   jsQueue, fnVars>>

RightPanFinalize ==
    /\ component = "RangeSlider"
    /\ rightPanState = "active"
    /\ isRightThumbActive' = 0
    /\ rightPanState' = "idle"
    /\ notified' = <<>>
    /\ lastEvent' = "rightPanFinalize"
    /\ repeated' = Repeats
    /\ UNCHANGED <<component, props, sliderVars, leftPosition, rightPosition,
                   startLeftPosition, startRightPosition, isLeftThumbActive,
                   leftAnim, rightAnim, leftPanState, jsQueue, events, fnVars>>

\* Gesture.Tap().enabled(tapToMove).onStart: the chosen thumb starts to
\* animate and updateRangeValues reads the positions as they are
RangeTap(x) ==
    /\ component = "RangeSlider"
    /\ events < MaxEvents
    /\ events' = events + 1
    /\ lastEvent' = "tap"
    /\ IF props.tapToMove
           THEN /\ IF tapMovesLeft(x)
                       THEN /\ leftAnim' = withTiming(leftPosition,
                                                      tapTarget(x))
                            /\ rightAnim' = rightAnim
                       ELSE /\ rightAnim' = withTiming(rightPosition,
                                                       tapTarget(x))
                            /\ leftAnim' = leftAnim
                /\ notified' = updateRangeValues(leftPosition, rightPosition)
           ELSE /\ UNCHANGED <<leftAnim, rightAnim>>
                /\ notified' = <<>>
    /\ repeated' = Repeats
    /\ UNCHANGED <<component, props, sliderVars, leftPosition, rightPosition,
                   startLeftPosition, startRightPosition, isLeftThumbActive,
                   isRightThumbActive, leftPanState, rightPanState, jsQueue,
                   fnVars>>

\* the JS thread runs an updateRangeValues call queued by a left pan update
RunUpdateRangeValues ==
    /\ component = "RangeSlider"
    /\ jsQueue > 0
    /\ jsQueue' = jsQueue - 1
    /\ notified' = updateRangeValues(leftPosition, rightPosition)
    /\ lastEvent' = "runOnJS"
    /\ repeated' = Repeats
    /\ UNCHANGED <<component, props, sliderVars, leftPosition, rightPosition,
                   startLeftPosition, startRightPosition, isLeftThumbActive,
                   isRightThumbActive, leftAnim, rightAnim, leftPanState,
                   rightPanState, events, fnVars>>

LeftAnimFrame ==
    /\ component = "RangeSlider"
    /\ leftAnim.active
    /\ leftPosition' = animFrameValue(leftAnim)
    /\ leftAnim' = animAfterFrame(leftAnim)
    /\ notified' = <<>>
    /\ lastEvent' = "leftFrame"
    /\ repeated' = Repeats
    /\ UNCHANGED <<component, props, sliderVars, rightPosition,
                   startLeftPosition, startRightPosition, isLeftThumbActive,
                   isRightThumbActive, rightAnim, leftPanState,
                   rightPanState, jsQueue, events, fnVars>>

RightAnimFrame ==
    /\ component = "RangeSlider"
    /\ rightAnim.active
    /\ rightPosition' = animFrameValue(rightAnim)
    /\ rightAnim' = animAfterFrame(rightAnim)
    /\ notified' = <<>>
    /\ lastEvent' = "rightFrame"
    /\ repeated' = Repeats
    /\ UNCHANGED <<component, props, sliderVars, leftPosition,
                   startLeftPosition, startRightPosition, isLeftThumbActive,
                   isRightThumbActive, leftAnim, leftPanState, rightPanState,
                   jsQueue, events, fnVars>>

----------------------------------------------------------------------------
(* Mounting a component *)

\* the props a component is mounted with: the default of every prop, and
\* every prop changed alone; the thumb is a quarter of the longest track, so
\* that a thumb can come to rest more than a thumb away from the other
ThumbSize == Num(1)
\* <<min, max, step>>: a step of 1, no step, and a step that neither min nor
\* max is a multiple of
ValueMappings == <<(<<Num(0), Num(MaxValue), Num(1)>>),
                   (<<Num(0), Num(MaxValue), Num(0)>>),
                   (<<Num(1), Num(MaxValue), Num(MaxStep)>>)>>
\* initialValue: inside the range, below it, above it
InitialValues == <<Num(2), Num(-1), Num(MaxValue + 1)>>
\* <<initialMin, initialMax>>: the two ends, a thumb apart, both the same
InitialRanges == <<(<<Num(0), Num(MaxValue)>>), (<<Num(1), Num(2)>>),
                   (<<Num(2), Num(2)>>)>>

Choices ==
    {c \in [mapping : 1..3, initial : 1..3, tapToMove : BOOLEAN,
            hasCallback : BOOLEAN] :
        Cardinality({f \in {"mapping", "initial"} : c[f] # 1}
                    \cup {f \in {"tapToMove", "hasCallback"} : ~c[f]}) <= 1}

PropsOf(mapping, tap, cb, iv, ir) ==
    [min |-> mapping[1], max |-> mapping[2], step |-> mapping[3],
     width |-> RAdd(Num(MaxTrack), ThumbSize), thumbSize |-> ThumbSize,
     tapToMove |-> tap, hasCallback |-> cb,
     initialValue |-> iv, initialMin |-> ir[1], initialMax |-> ir[2]]

SliderProps ==
    {PropsOf(ValueMappings[c.mapping], c.tapToMove, c.hasCallback,
             InitialValues[c.initial], <<Num(0), Num(0)>>) : c \in Choices}

RangeSliderProps ==
    {PropsOf(ValueMappings[c.mapping], c.tapToMove, c.hasCallback, Num(0),
             InitialRanges[c.initial]) : c \in Choices}

NoProps == PropsOf(<<Num(0), Num(0), Num(0)>>, FALSE, FALSE, Num(0),
                   <<Num(0), Num(0)>>)

NoCall == [fn |-> "none"]
NoRet == [done |-> FALSE]

\* the shared values as the first render creates them
MountSlider ==
    /\ position = initialPosition(props.initialValue, trackWidth, props.min,
                                  props.max)
    /\ startPosition = Num(0)
    /\ isThumbActive = 0
    /\ positionAnim = NoAnim
    /\ panState = "idle"

MountRangeSlider ==
    /\ leftPosition = initialPosition(props.initialMin, trackWidth,
                                      props.min, props.max)
    /\ rightPosition = initialPosition(props.initialMax, trackWidth,
                                       props.min, props.max)
    /\ startLeftPosition = Num(0)
    /\ startRightPosition = Num(0)
    /\ isLeftThumbActive = 0
    /\ isRightThumbActive = 0
    /\ leftAnim = NoAnim
    /\ rightAnim = NoAnim
    /\ leftPanState = "idle"
    /\ rightPanState = "idle"
    /\ jsQueue = 0

\* the variables of a component that is not mounted
NoSlider ==
    /\ position = Num(0)
    /\ startPosition = Num(0)
    /\ isThumbActive = 0
    /\ positionAnim = NoAnim
    /\ panState = "idle"

NoRangeSlider ==
    /\ leftPosition = Num(0)
    /\ rightPosition = Num(0)
    /\ startLeftPosition = Num(0)
    /\ startRightPosition = Num(0)
    /\ isLeftThumbActive = 0
    /\ isRightThumbActive = 0
    /\ leftAnim = NoAnim
    /\ rightAnim = NoAnim
    /\ leftPanState = "idle"
    /\ rightPanState = "idle"
    /\ jsQueue = 0

Init ==
    /\ component \in {"Slider", "RangeSlider"}
    /\ props \in (IF component = "Slider" THEN SliderProps
                  ELSE RangeSliderProps)
    /\ IF component = "Slider" THEN MountSlider /\ NoRangeSlider
       ELSE MountRangeSlider /\ NoSlider
    /\ notified = <<>>
    /\ lastEvent = "mount"
    /\ events = 0
    /\ repeated = FALSE
    /\ call = NoCall
    /\ ret = NoRet

Translations == {Num(i) : i \in (-MaxTranslation)..MaxTranslation}
\* event.x of a tap, inside the component's box
TapXs == {Num(i) : i \in 0..(MaxTrack + 1)}

Next ==
    \/ SliderPanStart
    \/ \E translationX \in Translations : SliderPanUpdate(translationX)
    \/ SliderPanFinalize
    \/ \E x \in TapXs : SliderTap(x)
    \/ SliderAnimFrame
    \/ LeftPanStart
    \/ \E translationX \in Translations : LeftPanUpdate(translationX)
    \/ LeftPanFinalize
    \/ RightPanStart
    \/ \E translationX \in Translations : RightPanUpdate(translationX)
    \/ RightPanFinalize
    \/ \E x \in TapXs : RangeTap(x)
    \/ RunUpdateRangeValues
    \/ LeftAnimFrame
    \/ RightAnimFrame

Spec == Init /\ [][Next]_vars

\* the gesture handler calls onFinalize for every gesture it has started,
\* whether the gesture ends or is cancelled
\* the two components mounted with the default of every prop
DefaultProps ==
    {PropsOf(ValueMappings[1], TRUE, TRUE, InitialValues[1],
             <<Num(0), Num(0)>>),
     PropsOf(ValueMappings[1], TRUE, TRUE, Num(0), InitialRanges[1])}

InitLive == Init /\ props \in DefaultProps

SpecLive ==
    /\ InitLive
    /\ [][Next]_vars
    /\ WF_vars(SliderPanFinalize)
    /\ WF_vars(LeftPanFinalize)
    /\ WF_vars(RightPanFinalize)

----------------------------------------------------------------------------
(* A mounted component rendered again with a changed prop *)

\* the props of a render that changes the initial value(s), the width or the
\* thumb size of the render before
RenderProps ==
    (IF component = "Slider"
         THEN {[props EXCEPT !.initialValue = InitialValues[i]] : i \in 1..3}
         ELSE {[props EXCEPT !.initialMin = InitialRanges[i][1],
                             !.initialMax = InitialRanges[i][2]] :
                   i \in 1..3})
        \cup {[props EXCEPT !.width = RAdd(Num(w), ThumbSize)] :
                  w \in {MaxTrack - 1, MaxTrack}}
        \cup {[props EXCEPT !.thumbSize = t] :
                  t \in {ThumbSize, RAdd(ThumbSize, Num(1))}}

\* a render that derives the positions from the props again, as the first
\* render does
RerenderRemounts(newProps) ==
    /\ component \in {"Slider", "RangeSlider"}
    /\ events < MaxEvents
    /\ events' = events + 1
    /\ newProps # props
    /\ props' = newProps
    /\ position' = IF component = "Slider"
                       THEN initialPosition(newProps.initialValue,
                                RSub(newProps.width, newProps.thumbSize),
                                newProps.min, newProps.max)
                       ELSE position
    /\ leftPosition' = IF component = "RangeSlider"
                           THEN initialPosition(newProps.initialMin,
                                    RSub(newProps.width, newProps.thumbSize),
                                    newProps.min, newProps.max)
                           ELSE leftPosition
    /\ rightPosition' = IF component = "RangeSlider"
                            THEN initialPosition(newProps.initialMax,
                                     RSub(newProps.width, newProps.thumbSize),
                                     newProps.min, newProps.max)
                            ELSE rightPosition
    /\ notified' = <<>>
    /\ lastEvent' = "rerender"
    /\ repeated' = Repeats
    /\ UNCHANGED <<component, startPosition, isThumbActive, positionAnim,
                   panState, startLeftPosition, startRightPosition,
                   isLeftThumbActive, isRightThumbActive, leftAnim,
                   rightAnim, leftPanState, rightPanState, jsQueue, fnVars>>

\* the component function runs again with new props: useSharedValue ignores
\* its argument after the first render, so every shared value is kept;
\* useMemo recomputes trackWidth and the gestures' callbacks
Rerender(newProps) ==
    /\ component \in {"Slider", "RangeSlider"}
    /\ events < MaxEvents
    /\ events' = events + 1
    /\ newProps # props
    /\ props' = newProps
    /\ notified' = <<>>
    /\ lastEvent' = "rerender"
    /\ repeated' = Repeats
    /\ UNCHANGED <<component, sliderVars, rangeVars, fnVars>>

NextRerender ==
    \/ Next
    \/ \E newProps \in RenderProps : Rerender(newProps)

SpecRerender == Init /\ [][NextRerender]_vars

----------------------------------------------------------------------------
(* The value mapper and the theme resolver called on their own *)

\* the numbers k/2 between lo and hi
Halves(lo, hi) == {Rat(k, 2) : k \in (2 * lo)..(2 * hi)}

FnPositions == Halves(-1, MaxArg + 1)
FnTrackWidths == {Num(i) : i \in (-1)..MaxArg}
FnMins == {Num(i) : i \in (-1)..1}
FnMaxs == {Num(i) : i \in (-1)..MaxArg}
FnSteps == {Rat(k, 2) : k \in (-1)..(2 * MaxArg)}

\* README, "Step Values": <Slider min={0} max={100} step={10}
\* initialValue={50} width={300} />, with the default thumbSize of 20
ReadmeTrackWidth == Num(280)
ReadmeStepValues ==
    [trackWidth |-> ReadmeTrackWidth, min |-> Num(0), max |-> Num(100),
     step |-> Num(10)]
\* the position of that slider whose raw value is 53
ReadmePosition53 == Rat(53 * 280, 100)

MapperArgs ==
    [trackWidth : FnTrackWidths, min : FnMins, max : FnMaxs, step : FnSteps]
        \cup {ReadmeStepValues}

PositionToValueCalls ==
    {[fn |-> "positionToValue", position |-> p, args |-> a] :
        p \in FnPositions \cup {ReadmePosition53}, a \in MapperArgs}

\* mounting a Slider with initialValue and asking for the value of the
\* position it starts at
InitialValueCalls ==
    {[fn |-> "initialValue", initialValue |-> v, args |-> a] :
        v \in FnPositions \cup {Num(50)}, a \in MapperArgs}

FnThemes == {"light", "dark", "blue"}
FnOverrides == {Undefined, Null, "#ABC"}

ThemeCalls ==
    {[fn |-> "useThemeColors", theme |-> t, customColors |-> c] :
        t \in FnThemes, c \in [Slots -> FnOverrides]}

InitFn ==
    /\ call \in PositionToValueCalls \cup InitialValueCalls \cup ThemeCalls
    /\ ret = NoRet
    /\ component = "none"
    /\ props = NoProps
    /\ NoSlider
    /\ NoRangeSlider
    /\ notified = <<>>
    /\ lastEvent = "none"
    /\ events = 0
    /\ repeated = FALSE

ApplyPositionToValue ==
    /\ call.fn = "positionToValue"
    /\ ~ret.done
    /\ ret' = [done |-> TRUE,
               value |-> positionToValue(call.position, call.args.trackWidth,
                                         call.args.min, call.args.max,
                                         call.args.step)]
    /\ UNCHANGED <<call, component, props, sliderVars, rangeVars, notified,
                   lastEvent, events, repeated>>

ApplyInitialValue ==
    /\ call.fn = "initialValue"
    /\ ~ret.done
    /\ LET pos == initialPosition(call.initialValue, call.args.trackWidth,
                                  call.args.min, call.args.max)
       IN  ret' = [done |-> TRUE, position |-> pos,
                   value |-> positionToValue(pos, call.args.trackWidth,
                                             call.args.min, call.args.max,
                                             call.args.step)]
    /\ UNCHANGED <<call, component, props, sliderVars, rangeVars, notified,
                   lastEvent, events, repeated>>

ApplyUseThemeColors ==
    /\ call.fn = "useThemeColors"
    /\ ~ret.done
    /\ LET r == useThemeColors(call.theme, call.customColors)
       IN  ret' = [done |-> TRUE, threw |-> r.threw, colors |-> r.colors]
    /\ UNCHANGED <<call, component, props, sliderVars, rangeVars, notified,
                   lastEvent, events, repeated>>

NextFn ==
    \/ ApplyPositionToValue
    \/ ApplyInitialValue
    \/ ApplyUseThemeColors

SpecFn == InitFn /\ [][NextFn]_vars

----------------------------------------------------------------------------
(* Properties of the RangeSlider's positions *)

C2_RangeInvariant ==
    component = "RangeSlider" =>
        RLe(RAdd(leftPosition, props.thumbSize), rightPosition)

----------------------------------------------------------------------------
(* Properties of the values passed to the callbacks *)

InRange(value) == RLe(props.min, value) /\ RLe(value, props.max)

\* C3: every value passed to onValueChange, and both values of every pair
\* passed to onRangeChange, lie in [min, max] (min <= max), also when the
\* position they are computed from lies outside [0, trackWidth].
C3_EmittedInRange ==
    RLe(props.min, props.max) =>
        \A i \in 1..Len(notified) :
            IF component = "Slider" THEN InRange(notified[i])
            ELSE InRange(notified[i][1]) /\ InRange(notified[i][2])

\* a pair emitted while the left thumb is stored left of the track, with
\* a step that rounds min to a value below min
C3_Witness ==
    /\ component = "RangeSlider"
    /\ notified # <<>>
    /\ RLt(leftPosition, Num(0))
    /\ notified[1][1] = props.min
    /\ RLt(Num(0), props.step)
    /\ RLt(RMul(MathRound(RDiv(props.min, props.step)), props.step),
           props.min)

----------------------------------------------------------------------------
(* Properties of positionToValue *)

\* the call made is a positionToValue call with min <= max and a track of
\* positive width, and it has returned
MapperReturned(fn) ==
    /\ call.fn = fn
    /\ ret.done
    /\ RLe(call.args.min, call.args.max)
    /\ RLt(Num(0), call.args.trackWidth)

\* min + (position clamped to the track) / trackWidth * (max - min)
RawValueOf(pos, args) ==
    LET p == IF RLt(pos, Num(0)) THEN Num(0)
             ELSE IF RLt(args.trackWidth, pos) THEN args.trackWidth
             ELSE pos
    IN  RAdd(args.min, RMul(RDiv(p, args.trackWidth),
                            RSub(args.max, args.min)))

\* the multiples k of step that a value of [min, max] can round to
MultiplesOf(args) ==
    LET lo == RDiv(args.min, args.step)
        hi == RDiv(args.max, args.step)
    IN  ((lo.num \div lo.den) - 1)..((hi.num \div hi.den) + 1)

\* C4: for step > 0 positionToValue returns the multiple k * step nearest to
\* the raw interpolated value (k * step - step/2 <= raw < k * step + step/2,
\* which is round(raw / step) * step), clamped into [min, max], so the result
\* is a multiple of step or is min or max; for step <= 0 it returns the raw
\* value; with min = 0, max = 100, step = 10 a raw value of 53 gives 50.
C4_Quantization ==
    MapperReturned("positionToValue") =>
        LET a == call.args
            raw == RawValueOf(call.position, a)
            half == RDiv(a.step, Num(2))
            clamped(v) == IF RLt(v, a.min) THEN a.min
                          ELSE IF RLt(a.max, v) THEN a.max ELSE v
        IN  /\ RLt(Num(0), a.step) =>
                /\ \E k \in MultiplesOf(a) :
                       LET m == RMul(Num(k), a.step)
                       IN  /\ RLe(RSub(m, half), raw)
                           /\ RLt(raw, RAdd(m, half))
                           /\ ret.value = clamped(m)
                /\ \/ \E k \in MultiplesOf(a) :
                          ret.value = RMul(Num(k), a.step)
                   \/ ret.value \in {a.min, a.max}
            /\ RLe(a.step, Num(0)) => ret.value = raw
            /\ (a = ReadmeStepValues /\ call.position = ReadmePosition53) =>
                   (raw = Num(53) /\ ret.value = Num(50))

\* the README's slider at the position whose raw value is 53
C4_Witness ==
    /\ MapperReturned("positionToValue")
    /\ call.args = ReadmeStepValues
    /\ call.position = ReadmePosition53
    /\ ret.value = Num(50)

\* C5: for min <= max and trackWidth > 0, positionToValue is monotonically
\* non-decreasing in position, for every step (zero, negative, positive).
C5_Monotonic ==
    MapperReturned("positionToValue") =>
        \A p2 \in FnPositions :
            LET v2 == positionToValue(p2, call.args.trackWidth,
                                      call.args.min, call.args.max,
                                      call.args.step)
            IN  /\ RLe(call.position, p2) => RLe(ret.value, v2)
                /\ RLe(p2, call.position) => RLe(v2, ret.value)

\* a quantized call with a larger position of the same value and a larger
\* position of a larger value
C5_Witness ==
    /\ MapperReturned("positionToValue")
    /\ RLt(Num(0), call.args.step)
    /\ \E p2, p3 \in FnPositions :
           /\ RLt(call.position, p2)
           /\ RLt(p2, p3)
           /\ positionToValue(p2, call.args.trackWidth, call.args.min,
                              call.args.max, call.args.step) = ret.value
           /\ RLt(ret.value,
                  positionToValue(p3, call.args.trackWidth, call.args.min,
                                  call.args.max, call.args.step))

\* C6: for step > 0, trackWidth > 0 and v in [min, max] a multiple of step,
\* the value of the initial position of v is v; with min = 0, max = 100,
\* step = 10 and initialValue = 50 it is 50.
C6_RoundTrip ==
    (/\ MapperReturned("initialValue")
     /\ RLt(Num(0), call.args.step)
     /\ RLe(call.args.min, call.initialValue)
     /\ RLe(call.initialValue, call.args.max)
     /\ \E k \in MultiplesOf(call.args) :
            call.initialValue = RMul(Num(k), call.args.step))
        => ret.value = call.initialValue

\* the README's slider, mounted with initialValue = 50
C6_Witness ==
    /\ MapperReturned("initialValue")
    /\ call.args = ReadmeStepValues
    /\ call.initialValue = Num(50)
    /\ ret.position = Num(140)
    /\ ret.value = Num(50)

----------------------------------------------------------------------------
(* Properties of the gestures *)

\* C7: with tapToMove = false a tap on the Slider or on the RangeSlider
\* changes no thumb position, starts no animation of one and invokes no
\* callback; the pan updates still store the clamped position and notify.
C7_TapDisabled ==
    [][~props.tapToMove =>
          /\ lastEvent' = "tap" =>
                /\ UNCHANGED <<position, positionAnim, leftPosition,
                               rightPosition, leftAnim, rightAnim, jsQueue>>
                /\ notified' = <<>>
          /\ lastEvent' = "panUpdate" =>
                \/ UNCHANGED vars
                \/ \E t \in Translations :
                       /\ position' = clampPosition(RAdd(startPosition, t),
                                                    Num(0), trackWidth)
                       /\ notified' = updateValue(position')
          /\ lastEvent' = "leftPanUpdate" =>
                \/ UNCHANGED vars
                \/ \E t \in Translations :
                       /\ leftPosition' =
                              MathMin(RAdd(startLeftPosition, t),
                                      RSub(rightPosition, props.thumbSize))
                       /\ jsQueue' = jsQueue + 1
          /\ lastEvent' = "rightPanUpdate" =>
                \/ UNCHANGED vars
                \/ \E t \in Translations :
                       /\ rightPosition' =
                              MathMax(RAdd(startRightPosition, t),
                                      RAdd(leftPosition, props.thumbSize))
                       /\ notified' = updateRangeValues(leftPosition,
                                                        rightPosition')
      ]_vars

\* a disabled tap on a Slider whose thumb a pan has moved to the end of the
\* track
C7_Witness ==
    /\ component = "Slider"
    /\ ~props.tapToMove
    /\ lastEvent = "tap"
    /\ position = trackWidth
    /\ ~positionAnim.active
    /\ notified = <<>>

\* C10: with onValueChange set, every pan update sample of the Slider
\* invokes it exactly once, while the gesture is active, with
\* positionToValue of the clamped position that the update has stored; the
\* finalize of the gesture invokes nothing.
C10_PanNotifies ==
    (component = "Slider" /\ props.hasCallback) =>
        /\ lastEvent = "panUpdate" =>
              /\ panState = "active"
              /\ RLe(Num(0), position) /\ RLe(position, trackWidth)
              /\ notified = <<positionToValue(position, trackWidth,
                                              props.min, props.max,
                                              props.step)>>
        /\ lastEvent = "panFinalize" => notified = <<>>

\* a second pan update sample in a row that notifies the value of the
\* sample before it (no tap can have notified: tapToMove is off)
C10_Witness ==
    /\ component = "Slider"
    /\ props.hasCallback
    /\ ~props.tapToMove
    /\ lastEvent = "panUpdate"
    /\ repeated
    /\ Len(notified) = 1

----------------------------------------------------------------------------
(* Properties of the theme resolver *)

\* README, "Theme Colors"
ReadmeThemeColors ==
    [light |-> [trackColor |-> "#F5F5F5", activeTrackColor |-> "#171717",
                thumbColor |-> "#FFFFFF", thumbBorderColor |-> "#171717",
                thumbFocusRingColor |-> "#D0D0D0"],
     dark  |-> [trackColor |-> "#262626", activeTrackColor |-> "#E5E5E5",
                thumbColor |-> "#0A0A0A", thumbBorderColor |-> "#E5E5E5",
                thumbFocusRingColor |-> "#3F3F3F"]]

ThemeReturned == call.fn = "useThemeColors" /\ ret.done

\* C8: for the themes light and dark and any overrides, each of the five
\* resolved colors is the override when one is given (not null, not
\* undefined) and the color of the theme's table, as the README documents
\* it, otherwise.
C8_ThemeResolution ==
    (ThemeReturned /\ call.theme \in {"light", "dark"}) =>
        /\ ~ret.threw
        /\ \A slot \in Slots :
               ret.colors[slot] =
                   IF call.customColors[slot] \in {Undefined, Null}
                       THEN ReadmeThemeColors[call.theme][slot]
                       ELSE call.customColors[slot]

\* the dark theme with thumbColor alone overridden
C8_Witness ==
    /\ ThemeReturned
    /\ call.theme = "dark"
    /\ call.customColors =
           [slot \in Slots |-> IF slot = "thumbColor" THEN "#ABC"
                               ELSE Undefined]
    /\ ret.colors = [ReadmeThemeColors["dark"] EXCEPT !.thumbColor = "#ABC"]

\* C9: a theme that is neither light nor dark, with at least one slot not
\* overridden, resolves without an error to a complete color set: the
\* overrides, and the default theme's colors for the other slots.
C9_UnknownThemeDefaults ==
    (/\ ThemeReturned
     /\ call.theme \notin {"light", "dark"}
     /\ \E slot \in Slots : call.customColors[slot] \in {Undefined, Null})
        => /\ ~ret.threw
           /\ \A slot \in Slots :
                  ret.colors[slot] =
                      IF call.customColors[slot] \in {Undefined, Null}
                          THEN ReadmeThemeColors[DEFAULT_THEME][slot]
                          ELSE call.customColors[slot]

----------------------------------------------------------------------------
(* Properties of the RangeSlider's notifications *)

\* C11: the pair a pan update passes to onRangeChange is computed from the
\* positions as they stand right after that update: a right-pan update
\* notifies in its own step, and while the updateRangeValues call of a
\* left-pan update waits to read the positions, no pan update and no tap
\* changes a position or starts an animation of one.
C11_SynchronousNotify ==
    [][/\ (lastEvent' = "rightPanUpdate" /\ props.hasCallback)
              => notified' = updateRangeValues(leftPosition', rightPosition')
       /\ (jsQueue > 0
              /\ lastEvent' \in {"leftPanUpdate", "rightPanUpdate", "tap"})
              => UNCHANGED <<leftPosition, rightPosition, leftAnim,
                             rightAnim>>]_vars

\* what the claim says of a tap at x handled by an enabled RangeSlider: the
\* thumb nearer to the target starts to move to it, the other thumb's
\* position and animation are left alone, and a tap as far from one thumb as
\* from the other moves the left thumb (tieMovesLeft) or the right one
TapSelects(x, tieMovesLeft) ==
    LET t == MathMax(Num(0), MathMin(trackWidth,
                 RSub(x, RDiv(props.thumbSize, Num(2)))))
        distToLeft == MathAbs(RSub(t, leftPosition))
        distToRight == MathAbs(RSub(t, rightPosition))
        left == \/ RLt(distToLeft, distToRight)
                \/ (distToLeft = distToRight /\ tieMovesLeft)
    IN  /\ leftPosition' = leftPosition
        /\ rightPosition' = rightPosition
        /\ IF left
               THEN /\ leftAnim' = withTiming(leftPosition, t)
                    /\ rightAnim' = rightAnim
               ELSE /\ rightAnim' = withTiming(rightPosition, t)
                    /\ leftAnim' = leftAnim

\* a step in which an enabled RangeSlider handles a tap
RangeTapStep ==
    /\ component = "RangeSlider"
    /\ props.tapToMove
    /\ lastEvent' = "tap"
    /\ events' = events + 1

\* C12 (as stated): a tap moves the thumb whose position is nearer to the
\* target clamp(x - thumbSize/2, 0, trackWidth) and leaves the other thumb
\* alone; when both distances are equal, the left thumb is the one moved.
C12_TapTieMovesLeft ==
    [][RangeTapStep => \E x \in TapXs : TapSelects(x, TRUE)]_vars

\* C12 (amended): a tap moves the thumb whose position is nearer to the
\* target and leaves the other thumb alone; when both distances are equal,
\* the right thumb is the one moved.
C12_TapTieMovesRight ==
    [][RangeTapStep => \E x \in TapXs : TapSelects(x, FALSE)]_vars

\* a tap half-way between two distinct thumbs has started the right thumb
\* towards the target and left the left thumb alone
C12_Witness ==
    /\ component = "RangeSlider"
    /\ lastEvent = "tap"
    /\ rightAnim = withTiming(rightPosition, rightAnim.to)
    /\ ~leftAnim.active
    /\ leftPosition # rightPosition
    /\ MathAbs(RSub(rightAnim.to, leftPosition))
           = MathAbs(RSub(rightAnim.to, rightPosition))

----------------------------------------------------------------------------
(* Properties of the Slider's tap *)

\* C13: with tapToMove on, a tap at x makes exactly one onValueChange call,
\* in the step of the tap, with positionToValue of the target
\* clamp(x - thumbSize/2, 0, trackWidth), whatever the position the thumb is
\* at; the tap leaves the position where it is and starts its animation to
\* the target, whose frames notify nothing and whose last frame lands on the
\* target.
C13_TapNotifiesTarget ==
    [][/\ (/\ component = "Slider"
           /\ props.tapToMove
           /\ props.hasCallback
           /\ lastEvent' = "tap"
           /\ events' = events + 1)
              => \E x \in TapXs :
                     LET t == MathMax(Num(0), MathMin(trackWidth,
                                  RSub(x, RDiv(props.thumbSize, Num(2)))))
                     IN  /\ notified' =
                                <<positionToValue(t, trackWidth, props.min,
                                                  props.max, props.step)>>
                         /\ position' = position
                         /\ positionAnim' = withTiming(position, t)
       /\ (/\ component = "Slider"
           /\ lastEvent' = "frame"
           /\ positionAnim' # positionAnim)
              => /\ notified' = <<>>
                 /\ IF positionAnim'.active
                        THEN positionAnim'.to = positionAnim.to
                        ELSE position' = positionAnim.to]_vars

\* a second tap, made while the animation of the first had the thumb between
\* two tap targets, has notified the value of its own target, which is not
\* the value of the position the thumb is at
C13_Witness ==
    /\ component = "Slider"
    /\ lastEvent = "tap"
    /\ events = 2
    /\ \A x \in TapXs : position # tapTarget(x)
    /\ position # initialPosition(props.initialValue, trackWidth, props.min,
                                  props.max)
    /\ positionAnim = withTiming(position, positionAnim.to)
    /\ notified = <<positionToValue(positionAnim.to, trackWidth, props.min,
                                    props.max, props.step)>>
    /\ notified[1] # positionToValue(position, trackWidth, props.min,
                                     props.max, props.step)

----------------------------------------------------------------------------
(* Properties of the positions of both components *)

\* C14: in every reachable state of a mounted component (trackWidth >= 0,
\* the props it was mounted with), every thumb position lies in
\* [0, trackWidth], also after a left pan with a large negative translation
\* and after a right pan with a large positive translation.
C14_PositionBounds ==
    /\ component = "Slider"
           => RLe(Num(0), position) /\ RLe(position, trackWidth)
    /\ component = "RangeSlider"
           => /\ RLe(Num(0), leftPosition) /\ RLe(leftPosition, trackWidth)
              /\ RLe(Num(0), rightPosition) /\ RLe(rightPosition, trackWidth)

----------------------------------------------------------------------------
(* Properties of the active flags *)

\* a step that changes the flag is the start of that thumb's pan, which sets
\* it to 1, or the finalize of that thumb's pan, which sets it to 0, and
\* each of the two does set it
FlagLifecycle(flag, flagNext, panStart, panFinalize, pan, panNext) ==
    /\ flagNext # flag =>
           \/ lastEvent' = panStart /\ flagNext = 1
           \/ lastEvent' = panFinalize /\ flagNext = 0
    /\ (pan = "idle" /\ panNext = "active") => flagNext = 1
    /\ (pan = "active" /\ panNext = "idle") => flagNext = 0

\* C15: a thumb's active flag is set to 1 by that thumb's pan start and by
\* nothing else, and back to 0 by that thumb's pan finalize and by nothing
\* else: not by a pan update, a tap or the other thumb's gesture; and, every
\* started gesture being finalized, a flag that is 1 is 0 again later.
C15_ActiveFlagLifecycle ==
    /\ [][/\ FlagLifecycle(isThumbActive, isThumbActive', "panStart",
                           "panFinalize", panState, panState')
          /\ FlagLifecycle(isLeftThumbActive, isLeftThumbActive',
                           "leftPanStart", "leftPanFinalize", leftPanState,
                           leftPanState')
          /\ FlagLifecycle(isRightThumbActive, isRightThumbActive',
                           "rightPanStart", "rightPanFinalize",
                           rightPanState, rightPanState')]_vars
    /\ (isThumbActive = 1) ~> (isThumbActive = 0)
    /\ (isLeftThumbActive = 1) ~> (isLeftThumbActive = 0)
    /\ (isRightThumbActive = 1) ~> (isRightThumbActive = 0)

\* the left thumb's pan has been finalized while the right thumb's pan goes
\* on: the left flag is back to 0 and the right flag is still 1
C15_Witness ==
    /\ component = "RangeSlider"
    /\ lastEvent = "leftPanFinalize"
    /\ isLeftThumbActive = 0
    /\ rightPanState = "active"
    /\ isRightThumbActive = 1

----------------------------------------------------------------------------
(* Properties of a render with changed props *)

\* C16: a render of a mounted component with a changed initialValue (or
\* initialMin/initialMax), width or thumbSize leaves every stored thumb
\* position unchanged; a position changes only in the step of its thumb's
\* pan update or in a frame of the animation that a tap started.
C16_PropsKeepPositions ==
    [][/\ lastEvent' = "rerender"
              => UNCHANGED <<position, leftPosition, rightPosition>>
       /\ position' # position => lastEvent' \in {"panUpdate", "frame"}
       /\ leftPosition' # leftPosition
              => lastEvent' \in {"leftPanUpdate", "leftFrame"}
       /\ rightPosition' # rightPosition
              => lastEvent' \in {"rightPanUpdate", "rightFrame"}]_vars

\* a Slider rendered again right after mount, with props whose initial
\* position is not the position the thumb has kept
C16_Witness ==
    /\ component = "Slider"
    /\ lastEvent = "rerender"
    /\ events = 1
    /\ position # initialPosition(props.initialValue, trackWidth, props.min,
                                  props.max)

----------------------------------------------------------------------------
(* Properties of the pairs a RangeSlider emits *)

----------------------------------------------------------------------------
(* Properties of the value mapper on a track without width *)

\* C18: for trackWidth <= 0 and any position, positionToValue returns (no
\* division by zero, no undefined value) the quantization of min clamped
\* into [min, max]: its interpolation yields min, which for step > 0 is
\* rounded to the multiple k * step with k * step - step/2 <= min <
\* k * step + step/2.
C18_NoTrackWidth ==
    (/\ call.fn = "positionToValue"
     /\ ret.done
     /\ RLe(call.args.min, call.args.max)
     /\ RLe(call.args.trackWidth, Num(0)))
        => LET a == call.args
               half == RDiv(a.step, Num(2))
               clamped(v) == IF RLt(v, a.min) THEN a.min
                             ELSE IF RLt(a.max, v) THEN a.max ELSE v
           IN  /\ RLt(Num(0), a.step) =>
                      \E k \in MultiplesOf(a) :
                          LET m == RMul(Num(k), a.step)
                          IN  /\ RLe(RSub(m, half), a.min)
                              /\ RLt(a.min, RAdd(m, half))
                              /\ ret.value = clamped(m)
               /\ RLe(a.step, Num(0)) => ret.value = a.min

\* a position to the right of a track of negative width, with a step that
\* min is not a multiple of: the value is the multiple of step next to min
C18_Witness ==
    /\ call.fn = "positionToValue"
    /\ ret.done
    /\ RLt(call.args.trackWidth, Num(0))
    /\ RLt(Num(0), call.position)
    /\ RLt(call.args.min, call.args.max)
    /\ RLt(Num(0), call.args.step)
    /\ ret.value # call.args.min
    /\ ret.value # call.args.max

----------------------------------------------------------------------------
(* Properties of the RangeSlider's tap *)

\* C19: the pair a tap passes to onRangeChange holds, for the thumb the tap
\* has selected, the value mapped from the tap's target position, as the
\* Slider's tap does, and not the value of the position that thumb had
\* before the tap.
C19_TapNotifiesMove ==
    [][(RangeTapStep /\ props.hasCallback)
           => /\ Len(notified') = 1
              /\ leftAnim' # leftAnim
                     => notified'[1][1] =
                            positionToValue(leftAnim'.to, trackWidth,
                                            props.min, props.max, props.step)
              /\ rightAnim' # rightAnim
                     => notified'[1][2] =
                            positionToValue(rightAnim'.to, trackWidth,
                                            props.min, props.max,
                                            props.step)]_vars

----------------------------------------------------------------------------
(* Properties of the position a thumb is mounted at *)

\* C20: for min < max and trackWidth >= 0 the position a thumb is mounted at
\* is the linear interpolation (initial - min) / (max - min) * trackWidth of
\* its initial value, whatever the step; an initial value below min gives 0
\* and one above max gives trackWidth, so the position lies in
\* [0, trackWidth].
C20_InitialPosition ==
    (/\ call.fn = "initialValue"
     /\ ret.done
     /\ RLt(call.args.min, call.args.max)
     /\ RLe(Num(0), call.args.trackWidth))
        => LET a == call.args
               linear == RMul(RDiv(RSub(call.initialValue, a.min),
                                   RSub(a.max, a.min)), a.trackWidth)
           IN  /\ ret.position =
                      IF RLe(call.initialValue, a.min) THEN Num(0)
                      ELSE IF RLe(a.max, call.initialValue) THEN a.trackWidth
                      ELSE linear
               /\ RLe(Num(0), ret.position)
               /\ RLe(ret.position, a.trackWidth)

\* an initial value strictly inside the range that is not a multiple of the
\* step: the position is the interpolation of the value itself, and the
\* value of that position is another, quantized one
C20_Witness ==
    /\ call.fn = "initialValue"
    /\ ret.done
    /\ RLt(call.args.min, call.initialValue)
    /\ RLt(call.initialValue, call.args.max)
    /\ RLt(Num(0), call.args.trackWidth)
    /\ RLt(Num(0), call.args.step)
    /\ ret.value # call.initialValue
    /\ ret.position = RMul(RDiv(RSub(call.initialValue, call.args.min),
                                RSub(call.args.max, call.args.min)),
                           call.args.trackWidth)

----------------------------------------------------------------------------
(* Properties of the Slider's pan *)

\* C21: within one pan gesture of the Slider the origin is the position at
\* the gesture's start and stays what it is until the finalize, and after
\* every update the position is clamp(origin + translationX, 0, trackWidth)
\* for the translationX of that sample, whatever the position the earlier
\* samples have left, so that a drag beyond an end of the track and back by
\* the same amount returns the thumb to where it was.
C21_DragFromOrigin ==
    [][/\ (panState = "idle" /\ panState' = "active")
              => startPosition' = position
       /\ (panState = "active" /\ panState' = "active")
              => startPosition' = startPosition
       /\ \A translationX \in Translations :
              SliderPanUpdate(translationX)
                  => position' = MathMax(Num(0), MathMin(trackWidth,
                                     RAdd(startPosition, translationX)))]_vars

\* a Slider whose taps are disabled, after a sample of a gesture that has
\* the thumb at the origin of the drag, away from both ends of the track
C21_Witness ==
    /\ component = "Slider"
    /\ lastEvent = "panUpdate"
    /\ ~props.tapToMove
    /\ events = MaxEvents
    /\ panState = "active"
    /\ position = startPosition
    /\ RLt(Num(0), position)
    /\ RLt(position, trackWidth)

----------------------------------------------------------------------------
(* Properties of the start and the finalize of a pan *)

\* what the claim says of the start of a pan: it records the position of
\* the thumb as the origin and raises the thumb's flag
PanStarts(pan, panNext, origin, pos, flag) ==
    (pan = "idle" /\ panNext = "active") => (origin = pos /\ flag = 1)

\* what the claim says of the finalize of a pan: it lowers the thumb's flag
PanFinalizes(pan, panNext, flag) ==
    (pan = "active" /\ panNext = "idle") => flag = 0

\* C22: in both components the start of a pan records the drag origin and
\* raises the thumb's active flag, the finalize of a pan lowers the flag, and
\* neither of the two changes a thumb position, an animation of one or the
\* other thumb's origin and flag, nor invokes onValueChange / onRangeChange.
C22_StartFinalizeKeepPositions ==
    [][/\ PanStarts(panState, panState', startPosition', position,
                    isThumbActive')
       /\ PanStarts(leftPanState, leftPanState', startLeftPosition',
                    leftPosition, isLeftThumbActive')
       /\ PanStarts(rightPanState, rightPanState', startRightPosition',
                    rightPosition, isRightThumbActive')
       /\ PanFinalizes(panState, panState', isThumbActive')
       /\ PanFinalizes(leftPanState, leftPanState', isLeftThumbActive')
       /\ PanFinalizes(rightPanState, rightPanState', isRightThumbActive')
       /\ (panState' # panState \/ leftPanState' # leftPanState
               \/ rightPanState' # rightPanState)
              => /\ UNCHANGED <<position, leftPosition, rightPosition,
                                positionAnim, leftAnim, rightAnim, jsQueue>>
                 /\ notified' = <<>>
       /\ panState' = panState
              => UNCHANGED <<startPosition, isThumbActive>>
       /\ leftPanState' = leftPanState
              => UNCHANGED <<startLeftPosition, isLeftThumbActive>>
       /\ rightPanState' = rightPanState
              => UNCHANGED <<startRightPosition, isRightThumbActive>>
       /\ (panState = "active" /\ panState' = "idle")
              => startPosition' = startPosition
       /\ (leftPanState = "active" /\ leftPanState' = "idle")
              => startLeftPosition' = startLeftPosition
       /\ (rightPanState = "active" /\ rightPanState' = "idle")
              => startRightPosition' = startRightPosition]_vars

\* a pan of the Slider has been finalized with the thumb at a position whose
\* value is quantized to the value of another position: the thumb is where
\* the gesture left it
C22_Witness ==
    /\ component = "Slider"
    /\ lastEvent = "panFinalize"
    /\ isThumbActive = 0
    /\ notified = <<>>
    /\ position # initialPosition(positionToValue(position, trackWidth,
                                      props.min, props.max, props.step),
                                  trackWidth, props.min, props.max)

----------------------------------------------------------------------------
(* Properties of what invokes the callbacks *)

\* the step invokes onValueChange / onRangeChange
Notifies == notified' # <<>>

\* C23: onValueChange / onRangeChange is invoked by a pan update (for the
\* left thumb: by the call its update has queued) or by an enabled tap and
\* by nothing else, not by the mount and not by a render with changed
\* props; without the callback prop nothing is invoked, and a pan update
\* stores the position and a tap starts the animation that they store and
\* start with it: clamp(origin + translationX, 0, trackWidth) for the
\* Slider, the sum held off the other thumb by thumbSize for the
\* RangeSlider, and the nearer thumb sent to clamp(x - thumbSize/2, 0,
\* trackWidth) by a tap.
C23_NotifiedByGestures ==
    /\ lastEvent = "mount" => notified = <<>>
    /\ [][/\ Notifies =>
                 \/ lastEvent' \in {"panUpdate", "rightPanUpdate", "runOnJS"}
                 \/ lastEvent' = "tap" /\ props.tapToMove
          /\ lastEvent' = "rerender" => ~Notifies
          /\ ~props.hasCallback =>
                 /\ ~Notifies
                 /\ lastEvent' \in {"panUpdate", "leftPanUpdate",
                                    "rightPanUpdate"} =>
                        \A translationX \in Translations :
                            /\ SliderPanUpdate(translationX)
                                   => position' =
                                          MathMax(Num(0), MathMin(trackWidth,
                                              RAdd(startPosition,
                                                   translationX)))
                            /\ LeftPanUpdate(translationX)
                                   => leftPosition' =
                                          MathMin(RAdd(startLeftPosition,
                                                       translationX),
                                                  RSub(rightPosition,
                                                       props.thumbSize))
                            /\ RightPanUpdate(translationX)
                                   => rightPosition' =
                                          MathMax(RAdd(startRightPosition,
                                                       translationX),
                                                  RAdd(leftPosition,
                                                       props.thumbSize))
                 /\ (lastEvent' = "tap" /\ props.tapToMove) =>
                        \A x \in TapXs :
                            LET t == MathMax(Num(0), MathMin(trackWidth,
                                         RSub(x, RDiv(props.thumbSize,
                                                      Num(2)))))
                            IN  /\ SliderTap(x)
                                       => positionAnim' =
                                              withTiming(position, t)
                                /\ RangeTap(x) => TapSelects(x, FALSE)]_vars

\* a Slider without onValueChange whose pan update has moved the thumb away
\* from the origin of the drag and has invoked nothing
C23_Witness ==
    /\ component = "Slider"
    /\ ~props.hasCallback
    /\ lastEvent = "panUpdate"
    /\ position # startPosition
    /\ notified = <<>>

----------------------------------------------------------------------------
(* Properties of the order of the RangeSlider's thumbs *)

\* where a thumb is going: the target of its animation, or its position
TargetOf(anim, pos) == IF anim.active THEN anim.to ELSE pos

\* C24: a tap on a RangeSlider whose left thumb is not to the right of its
\* right thumb, also when both are at the same position, leaves the left
\* thumb's target position <= the right thumb's target position, for every
\* tap coordinate.
C24_TapKeepsOrder ==
    [][(RangeTapStep /\ RLe(leftPosition, rightPosition)
            /\ ~leftAnim.active /\ ~rightAnim.active)
           => RLe(TargetOf(leftAnim', leftPosition'),
                  TargetOf(rightAnim', rightPosition'))]_vars

=============================================================================
